---- MODULE Spec2Model ----
(***************************************************************************)
(* gosh: an interactive command interpreter.  The model follows the latest *)
(* variant of the program (parseCommand / evaluateCommand / main): the     *)
(* read loop, the quote- and escape-aware tokenizer taken one scanned      *)
(* character at a time, and the dispatch on the raw line.                  *)
(*                                                                         *)
(* A string is a sequence of one-character strings.  Text written to a     *)
(* stream is a sequence of fragments (characters and fixed message parts). *)
(***************************************************************************)
EXTENDS Integers, Sequences, FiniteSets, TLC

VARIABLES
    pc,               \* "start": main begins; "read": the prompt is written and main waits
                      \* for a line; "scan": inside the loop of parseCommand; "child":
                      \* runProgram waits for the end of the child it started;
                      \* "done": evaluateCommand has returned; "exited": os.Exit was called;
                      \* "panic": a runtime panic ended the process
    command,          \* the line handed to evaluateCommand (newline stripped)
    i,                \* parseCommand: index of the rune to scan next (1-based)
    tokens,           \* parseCommand: completed tokens
    prev,             \* parseCommand: previous rune
    cur,              \* parseCommand: the in-progress buffer
    seenSingleQuote,  \* parseCommand: single-quote flag
    seenDoubleQuote,  \* parseCommand: double-quote flag
    last,             \* what the most recent scan step did (observation of the step)
    selected,         \* the branch evaluateCommand took for the current line ("none" before
                      \* it chooses, "eof" when no line could be read)
    stdout,           \* writes to standard output since the prompt of the current cycle
    stderr,           \* writes to standard error in the current cycle
    exitCode,         \* <<n>> after os.Exit(n), n being the argument of the call; NoCode while running
    cwd,              \* the process working directory
    cwdRemoved,       \* another process has removed the working directory: os.Getwd fails
    pathEnv,          \* the PATH environment variable: [set, dirs]
    spawned,          \* the child process started for the current line (NoChild if none)
    lookup,           \* the call of getExecutablePath made for the current line and what
                      \* it returned (NoLookup if none)
    pending           \* newline-terminated lines of standard input that no reader has taken yet

vars == <<pc, command, i, tokens, prev, cur, seenSingleQuote, seenDoubleQuote, last,
          selected, stdout, stderr, exitCode, cwd, cwdRemoved, pathEnv, spawned, lookup,
          pending>>

scanVars == <<tokens, prev, cur, seenSingleQuote, seenDoubleQuote>>

(***************************************************************************)
(* Characters and words                                                    *)
(***************************************************************************)
SQ == "'"
DQ == "\""
BS == "\\"
SP == " "
NoRune == "NUL"          \* the zero value of `prev`

specialChars == {DQ, BS}

wExit == <<"e", "x", "i", "t">>
wEcho == <<"e", "c", "h", "o">>
wType == <<"t", "y", "p", "e">>
wPwd  == <<"p", "w", "d">>
wCd   == <<"c", "d">>
wLs   == <<"l", "s">>

Builtins == {wExit, wEcho, wType, wPwd, wCd}

(***************************************************************************)
(* Bounds and the input lines                                              *)
(***************************************************************************)
\* A line is a command word (or none), an optional separating space, and up to
\* MaxTail further pieces: quote and escape characters, spaces, a digit (also
\* the name of a file), the tilde and the name of a builtin.
MaxTail == 3

\* The most input lines one read of standard input delivers to the reader.
MaxChunk == 2

\* The most newline-terminated lines the input stream holds.
MaxLines == 2

Heads == {<<>>, wExit, wEcho, wType, wPwd, wCd, wLs}

Separators == {<<>>, <<SP>>}

TailPieces == {<<SQ>>, <<DQ>>, <<BS>>, <<SP>>, <<"2">>, <<"~">>, wCd}

RECURSIVE TailsOf(_)
TailsOf(n) ==
    IF n = 0 THEN {<<>>}
    ELSE LET shorter == TailsOf(n - 1)
         IN  shorter \cup {t \o p : t \in shorter, p \in TailPieces}

\* The lines of the specification's examples.
EchoSingleQuoted == wEcho \o <<SP, SQ, "a", SP, SP, "b", SQ>>             \* echo 'a  b'
EchoEscapedQuote == wEcho \o <<SP, DQ, "a", BS, DQ, "b", DQ>>             \* echo "a\"b"
EchoHelloWorld == wEcho \o <<SP, "h", "e", "l", "l", "o", SP, "w", "o", "r", "l", "d">>

Examples == {EchoSingleQuoted, EchoEscapedQuote, EchoHelloWorld}

Lines == {h \o s \o t : h \in Heads, s \in Separators, t \in TailsOf(MaxTail)} \cup Examples

(***************************************************************************)
(* String helpers (strings.HasPrefix, strings.Join, strconv.Atoi)          *)
(***************************************************************************)
HasPrefix(s, p) == Len(s) >= Len(p) /\ SubSeq(s, 1, Len(p)) = p

RECURSIVE Join(_, _)
Join(elems, sep) ==
    IF elems = <<>> THEN <<>>
    ELSE IF Len(elems) = 1 THEN elems[1]
    ELSE elems[1] \o sep \o Join(Tail(elems), sep)

Digits == {"0", "1", "2", "3", "4", "5", "6", "7", "8", "9"}

DigitVal(c) ==
    CASE c = "0" -> 0 [] c = "1" -> 1 [] c = "2" -> 2 [] c = "3" -> 3 [] c = "4" -> 4
      [] c = "5" -> 5 [] c = "6" -> 6 [] c = "7" -> 7 [] c = "8" -> 8 [] c = "9" -> 9

HasSign(s) == s # <<>> /\ s[1] \in {"+", "-"}

Unsigned(s) == IF HasSign(s) THEN Tail(s) ELSE s

\* strconv.Atoi succeeds on an optional sign followed by one or more decimal digits
\* (the strings of the model are far shorter than the 19 digits of the int range).
AtoiOk(s) == Unsigned(s) # <<>> /\ \A k \in 1..Len(Unsigned(s)) : Unsigned(s)[k] \in Digits

RECURSIVE DigitsVal(_)
DigitsVal(s) == IF s = <<>> THEN 0 ELSE DigitsVal(SubSeq(s, 1, Len(s) - 1)) * 10 + DigitVal(s[Len(s)])

AtoiVal(s) == IF s[1] = "-" THEN 0 - DigitsVal(Unsigned(s)) ELSE DigitsVal(Unsigned(s))

(***************************************************************************)
(* Process states                                                          *)
(***************************************************************************)
NoCode == <<>>           \* exitCode while the process runs; <<n>> after os.Exit(n)
NoChild == <<>>          \* spawned when no child was started; <<[name, args, path, state]>> otherwise,
                         \* state being "running", "succeeded" or "failed"
NoLookup == <<>>         \* lookup when getExecutablePath was not called; <<[file, kind, path, err]>> otherwise
Prompt == <<"$ ">>
NoStep == [i |-> 0, cur |-> <<>>, ntok |-> 0, sq |-> FALSE, dq |-> FALSE, prev |-> NoRune]

\* The scan state a step starts from, kept to compare with the state it leaves.
Snapshot ==
    [i |-> i, cur |-> cur, ntok |-> Len(tokens), sq |-> seenSingleQuote,
     dq |-> seenDoubleQuote, prev |-> prev]

(***************************************************************************)
(* The environment: PATH values, the directories they name, and the        *)
(* directory tree that cd walks.                                           *)
(***************************************************************************)
OwnerExec == 64                      \* 0100, the owner-executable bit
ModeExec == 7 * 64 + 5 * 8 + 5       \* 0755
ModePlain == 6 * 64 + 4 * 8 + 4      \* 0644
ModeOwnerOnly == 7 * 64              \* 0700

Entry(name, isDir, infoErr, perm) ==
    [name |-> name, isDir |-> isDir, infoErr |-> infoErr, perm |-> perm]

\* os.ReadDir(dir): "ok" with the entries, "notexist", or "denied".
ReadDirStatus(dir) ==
    CASE dir \in {"/opt", "/bin", "/usr/bin", "/racy"} -> "ok"
      [] dir = "/locked" -> "denied"
      [] OTHER -> "notexist"

ReadDirEntries(dir) ==
    CASE dir = "/opt" -> << Entry(<<"2">>, FALSE, FALSE, ModePlain),
                            Entry(wLs, TRUE, FALSE, ModeExec),
                            Entry(wPwd, FALSE, FALSE, ModeOwnerOnly),
                            Entry(<<"~">>, FALSE, FALSE, ModeOwnerOnly) >>
      [] dir = "/bin" -> << Entry(wCd, FALSE, FALSE, ModePlain),
                            Entry(wLs, FALSE, FALSE, ModeExec),
                            Entry(wPwd, FALSE, FALSE, ModeExec) >>
      [] dir = "/usr/bin" -> << Entry(<<"2">>, FALSE, FALSE, ModeExec),
                                Entry(wCd, FALSE, FALSE, ModeExec),
                                Entry(wLs, FALSE, FALSE, ModeExec) >>
      [] dir = "/racy" -> << Entry(wCd, FALSE, TRUE, ModeExec) >>
      [] OTHER -> <<>>

PathUnset == [set |-> FALSE, dirs |-> <<>>]
PathValue(dirs) == [set |-> TRUE, dirs |-> dirs]

PathEnvs ==
    { PathUnset,
      PathValue(<<"/nodir", "/opt", "/bin", "/usr/bin">>),
      PathValue(<<"/bin", "/locked", "/usr/bin">>),
      PathValue(<<"/racy", "", "/usr/bin">>) }

\* Directory tree for os.Chdir: what a cleaned absolute path names.
StartDir == <<"/", "t">>
SubDir == <<"/", "t", "/", "2">>
HomeDir == <<"/", "h">>
PlainFile == <<"/", "t", "/", "2", "2">>

WorkDirs == {StartDir, SubDir, HomeDir}

PathStatus(path) ==
    IF path \in WorkDirs THEN "dir"
    ELSE IF path = PlainFile THEN "notdir"
    ELSE "notexist"

(***************************************************************************)
(* getExecutablePath                                                       *)
(***************************************************************************)
\* The message for an entry whose Info() fails because the file is gone: the
\* error names the path of the entry, directory included.
InfoErrText(dir, name) ==
    <<"Failed to get file info: ", "lstat ", dir, "/">> \o name
        \o <<": no such file or directory", "\n">>

\* Variant with a fault: the permission bits are not looked at.
EntryMatchesAnyMode(entry, file) == entry.name = file

\* The test of one entry: its name is the one looked for and its owner may execute it.
EntryMatches(entry, file) == entry.name = file /\ (entry.perm \div OwnerExec) % 2 # 0

\* The loop over the entries of one directory: the index of the first entry
\* that is a file named `file` with the owner-executable bit (0 if none), and
\* the messages written to standard error for entries whose Info() failed.
RECURSIVE ScanEntries(_, _, _, _, _)
ScanEntries(dir, entries, k, file, warn) ==
    IF k > Len(entries) THEN [hit |-> 0, warn |-> warn]
    ELSE LET entry == entries[k]
         IN  IF entry.isDir THEN ScanEntries(dir, entries, k + 1, file, warn)
             ELSE IF entry.infoErr
                  THEN ScanEntries(dir, entries, k + 1, file,
                                   Append(warn, InfoErrText(dir, entry.name)))
             ELSE IF EntryMatches(entry, file)
                  THEN [hit |-> k, warn |-> warn]
             ELSE ScanEntries(dir, entries, k + 1, file, warn)

NotFoundErr(file) == file \o <<": not found">>
ReadDirErr(dir) == <<"failed to read directory: ", "open ", dir, ": permission denied">>

\* The loop over the search-path directories, from directory number d on.
RECURSIVE SearchDirs(_, _, _, _)
SearchDirs(dirs, d, file, warn) ==
    IF d > Len(dirs)
    THEN [kind |-> "error", path |-> <<>>, err |-> NotFoundErr(file), warn |-> warn]
    ELSE IF ReadDirStatus(dirs[d]) = "denied"
    THEN [kind |-> "error", path |-> <<>>, err |-> ReadDirErr(dirs[d]), warn |-> warn]
    ELSE LET res == ScanEntries(dirs[d], ReadDirEntries(dirs[d]), 1, file, warn)
         IN  IF res.hit # 0
             THEN [kind |-> "found", path |-> <<dirs[d], "/">> \o file, err |-> <<>>,
                   warn |-> res.warn]
             ELSE SearchDirs(dirs, d + 1, file, res.warn)

\* kind "nopath": PATH is unset, the process exits with code 1;
\* kind "found": path is the result; kind "error": err is the error text.
getExecutablePath(file) ==
    IF ~pathEnv.set
    THEN [kind |-> "nopath", path |-> <<>>, err |-> <<>>,
          warn |-> << <<"'PATH' env is not set", "\n">> >>]
    ELSE SearchDirs(pathEnv.dirs, 1, file, <<>>)

\* strings.Contains(err.Error(), "not found")
ContainsNotFound(err) == \E k \in 1..Len(err) : err[k] = ": not found"

(***************************************************************************)
(* main: the read loop                                                     *)
(***************************************************************************)
Init ==
    /\ pc = "start"
    /\ command = <<>>
    /\ i = 1
    /\ tokens = <<>>
    /\ prev = NoRune
    /\ cur = <<>>
    /\ seenSingleQuote = FALSE
    /\ seenDoubleQuote = FALSE
    /\ last = NoStep
    /\ selected = "none"
    /\ stdout = <<>>
    /\ stderr = <<>>
    /\ exitCode = NoCode
    /\ cwd = StartDir
    /\ cwdRemoved = FALSE
    /\ pathEnv \in PathEnvs
    /\ spawned = NoChild
    /\ lookup = NoLookup
    /\ pending \in 0..MaxLines

\* ReadString returns a newline-terminated line, its newline is stripped, and
\* parseCommand starts on it with its locals at their zero values.  The turn
\* has made a new buffered reader: the read that fills its buffer delivers a
\* chunk of one or more whole lines, ReadString returns the first, and the
\* others stay in the buffer of a reader no later turn uses.
ReadLine ==
    /\ pc = "read"
    /\ pc' = "scan"
    /\ \E line \in Lines : command' = line
    /\ \E chunk \in 1..MaxChunk :
          /\ chunk <= pending
          /\ pending' = pending - chunk
    /\ UNCHANGED <<i, scanVars, last, selected, stdout, stderr, exitCode, cwd, cwdRemoved,
                   pathEnv, spawned, lookup>>

\* The environment: while the shell waits, for a line or for the end of a
\* child, another process removes the subdirectory the shell is in.  From
\* then on os.Getwd fails.
RemoveCwd ==
    /\ pc \in {"read", "child"}
    /\ cwd = SubDir
    /\ ~cwdRemoved
    /\ cwdRemoved' = TRUE
    /\ UNCHANGED <<pc, command, i, scanVars, last, selected, stdout, stderr, exitCode, cwd,
                   pathEnv, spawned, lookup, pending>>

\* The loop starts a turn, the first one or the one after evaluateCommand has
\* returned: the line and the locals of parseCommand are gone, the record of
\* what the finished turn wrote starts afresh, and the prompt is written.
NextTurn ==
    /\ pc \in {"start", "done"}
    /\ pc' = "read"
    /\ command' = <<>>
    /\ i' = 1
    /\ tokens' = <<>>
    /\ prev' = NoRune
    /\ cur' = <<>>
    /\ seenSingleQuote' = FALSE
    /\ seenDoubleQuote' = FALSE
    /\ last' = NoStep
    /\ selected' = "none"
    /\ stdout' = <<Prompt>>
    /\ stderr' = <<>>
    /\ spawned' = NoChild
    /\ lookup' = NoLookup
    /\ UNCHANGED <<exitCode, cwd, cwdRemoved, pathEnv, pending>>

\* ReadString fails, after the prompt: the input has ended before a newline.  What it returns
\* beside the error is the unterminated rest of the input (none, or the
\* characters of a last line); main does not look at it.
ReadFails ==
    /\ pc = "read"
    /\ pending = 0
    /\ \E rest \in {<<>>} \cup Examples : command' = rest
    /\ pc' = "exited"
    /\ exitCode' = <<1>>
    /\ selected' = "eof"
    /\ stderr' = Append(stderr, <<"Error reading input: ", " ", "EOF", "\n">>)
    /\ UNCHANGED <<i, scanVars, last, stdout, cwd, cwdRemoved, pathEnv, spawned, lookup,
                   pending>>

(***************************************************************************)
(* parseCommand: one action per case of the switch, one scanned rune (two  *)
(* for a taken escape) per step                                            *)
(***************************************************************************)
Scanning == pc = "scan" /\ i <= Len(command)

\* The rest of a loop turn: prev = runes[i]; i++ (with i the index the case left).
Advance(at) ==
    /\ prev' = command[at]
    /\ i' = at + 1
    /\ last' = Snapshot
    /\ UNCHANGED <<pc, command, selected, stdout, stderr, exitCode, cwd, cwdRemoved, pathEnv, spawned,
                   lookup, pending>>

\* Variant with a fault: a single quote toggles its flag inside double quotes too.
ScanSingleQuoteToggles ==
    /\ Scanning
    /\ command[i] = SQ
    /\ seenSingleQuote' = ~seenSingleQuote
    /\ UNCHANGED <<cur, tokens, seenDoubleQuote>>
    /\ Advance(i)

ScanSingleQuote ==
    /\ Scanning
    /\ command[i] = SQ
    /\ IF seenDoubleQuote
       THEN cur' = Append(cur, command[i]) /\ UNCHANGED seenSingleQuote
       ELSE seenSingleQuote' = ~seenSingleQuote /\ UNCHANGED cur
    /\ UNCHANGED <<tokens, seenDoubleQuote>>
    /\ Advance(i)

ScanDoubleQuote ==
    /\ Scanning
    /\ command[i] = DQ
    /\ IF seenSingleQuote
       THEN cur' = Append(cur, command[i]) /\ UNCHANGED seenDoubleQuote
       ELSE seenDoubleQuote' = ~seenDoubleQuote /\ UNCHANGED cur
    /\ UNCHANGED <<tokens, seenSingleQuote>>
    /\ Advance(i)

\* Variants of the escape condition with a fault: never escaping, and
\* escaping inside single quotes too.
EscapeNever(runes, at, inSingle) == FALSE

EscapeInSingle(runes, at, inSingle) == at + 1 <= Len(runes) /\ runes[at] \in specialChars

\* The condition of the escape: it tests the rune at i, the backslash itself.
EscapeTaken(runes, at, inSingle) ==
    ~inSingle /\ at + 1 <= Len(runes) /\ runes[at] \in specialChars

ScanBackslash ==
    /\ Scanning
    /\ command[i] = BS
    /\ LET at == IF EscapeTaken(command, i, seenSingleQuote) THEN i + 1 ELSE i
       IN  /\ cur' = Append(cur, command[at])
           /\ Advance(at)
    /\ UNCHANGED <<tokens, seenSingleQuote, seenDoubleQuote>>

\* Variant with a fault: the buffer is flushed without looking at its length.
SpaceFlushesAnyBuffer(previous, buffer) == previous # SP

\* The space case flushes the buffer only when the previous rune is not a space.
SpaceFlushes(previous, buffer) == previous # SP /\ Len(buffer) > 0

ScanSpace ==
    /\ Scanning
    /\ command[i] = SP
    /\ IF seenDoubleQuote \/ seenSingleQuote
       THEN cur' = Append(cur, command[i]) /\ UNCHANGED tokens
       ELSE IF SpaceFlushes(prev, cur)
       THEN tokens' = Append(tokens, cur) /\ cur' = <<>>
       ELSE UNCHANGED <<tokens, cur>>
    /\ UNCHANGED <<seenSingleQuote, seenDoubleQuote>>
    /\ Advance(i)

ScanDefault ==
    /\ Scanning
    /\ command[i] \notin {SQ, DQ, BS, SP}
    /\ cur' = Append(cur, command[i])
    /\ UNCHANGED <<tokens, seenSingleQuote, seenDoubleQuote>>
    /\ Advance(i)

(***************************************************************************)
(* evaluateCommand: the end of parseCommand and the dispatch               *)
(***************************************************************************)
ScanDone == pc = "scan" /\ i > Len(command)

\* Variant with a fault: the final flush does not look at the buffer's length.
FlushedAlways == Append(tokens, cur)

\* Variant with a fault: the buffer left at the end of the line is not flushed.
FlushedNoFinal == tokens

\* The token list after the final flush of a non-empty buffer.
Flushed == IF Len(cur) > 0 THEN Append(tokens, cur) ELSE tokens

\* cmd.Exec and cmd.Args of the parsed command (parseCommand returns nil on no token).
Exec == Flushed[1]
Args == Tail(Flushed)

\* Variant with a fault: pwd is matched as a prefix, like the other builtins.
DispatchPwdPrefix(line) ==
    IF HasPrefix(line, wExit) THEN "exit"
    ELSE IF HasPrefix(line, wEcho) THEN "echo"
    ELSE IF HasPrefix(line, wType) THEN "type"
    ELSE IF HasPrefix(line, wPwd) THEN "pwd"
    ELSE IF HasPrefix(line, wCd) THEN "cd"
    ELSE "external"

\* The if/else-if chain of evaluateCommand on the raw line.
Dispatch(line) ==
    IF HasPrefix(line, wExit) THEN "exit"
    ELSE IF HasPrefix(line, wEcho) THEN "echo"
    ELSE IF HasPrefix(line, wType) THEN "type"
    ELSE IF line = wPwd THEN "pwd"
    ELSE IF HasPrefix(line, wCd) THEN "cd"
    ELSE "external"

Selects(branch) == ScanDone /\ Len(Flushed) >= 1 /\ Dispatch(command) = branch

\* What every branch leaves alone, and the parsed tokens it worked on.
Parsed(branch) ==
    /\ tokens' = Flushed
    /\ selected' = branch
    /\ UNCHANGED <<command, i, prev, cur, seenSingleQuote, seenDoubleQuote, last, pathEnv,
                   pending>>

Returns == pc' = "done" /\ UNCHANGED exitCode
Exits(code) == pc' = "exited" /\ exitCode' = <<code>>
Panics == pc' = "panic" /\ exitCode' = <<2>>

\* What the runtime writes for the panic: the message, an empty line, the
\* goroutine header and the frames of the stack (the panicking builtin,
\* evaluateCommand, main; their addresses and paths are those of the build and
\* stand here as one piece).
IndexPanicText ==
    <<"panic: runtime error: index out of range [0] with length 0", "\n", "\n",
      "goroutine 1 [running]:", "\n", "<stack trace>", "\n">>

\* parseCommand returned nil: os.Exit(0).
EvalNoCommand ==
    /\ ScanDone
    /\ Len(Flushed) < 1
    /\ Parsed("empty")
    /\ Exits(0)
    /\ UNCHANGED <<stdout, stderr, cwd, cwdRemoved, spawned, lookup>>

\* strconv.Quote: the text between double quotes, a double quote and a
\* backslash inside it escaped by a backslash (the other characters of a line
\* are printable and stay as they are).
RECURSIVE QuoteRunes(_)
QuoteRunes(text) ==
    IF Len(text) = 0 THEN <<>>
    ELSE (IF Head(text) \in {DQ, BS} THEN <<BS, Head(text)>> ELSE <<Head(text)>>)
             \o QuoteRunes(Tail(text))

Quote(text) == <<DQ>> \o QuoteRunes(text) \o <<DQ>>

AtoiErrText(arg) ==
    <<"Error reading exit code: ", " ", "strconv.Atoi: parsing ">> \o Quote(arg)
        \o <<": invalid syntax", "\n">>

\* Variant with a fault: the exit code is parsed from the last argument.
executeExitCmdLastArg ==
    /\ ScanDone /\ Len(Flushed) >= 1 /\ HasPrefix(command, wExit)
    /\ Parsed("exit")
    /\ IF Len(Args) <= 0
       THEN Exits(0) /\ UNCHANGED stderr
       ELSE IF AtoiOk(Args[Len(Args)])
       THEN Exits(AtoiVal(Args[Len(Args)])) /\ UNCHANGED stderr
       ELSE Exits(1) /\ stderr' = Append(stderr, AtoiErrText(Args[Len(Args)]))
    /\ UNCHANGED <<stdout, cwd, cwdRemoved, spawned, lookup>>

executeExitCmd ==
    /\ Selects("exit")
    /\ Parsed("exit")
    /\ IF Len(Args) <= 0
       THEN Exits(0) /\ UNCHANGED stderr
       ELSE IF AtoiOk(Args[1])
       THEN Exits(AtoiVal(Args[1])) /\ UNCHANGED stderr
       ELSE Exits(1) /\ stderr' = Append(stderr, AtoiErrText(Args[1]))
    /\ UNCHANGED <<stdout, cwd, cwdRemoved, spawned, lookup>>

executeEchoCmd ==
    /\ Selects("echo")
    /\ Parsed("echo")
    /\ stdout' = Append(stdout, Join(Args, <<SP>>) \o <<"\n">>)
    /\ Returns
    /\ UNCHANGED <<stderr, cwd, cwdRemoved, spawned, lookup>>

\* The record of a call of getExecutablePath: the name looked up and the result.
Looked(file, res) == << [file |-> file, kind |-> res.kind, path |-> res.path, err |-> res.err] >>

\* Variant with a fault: the case list of an earlier version, without pwd and cd.
IsBuiltinNameOld(name) == name \in {wExit, wEcho, wType}

\* The case list of executeTypeCmd.
IsBuiltinName(name) == name \in Builtins

executeTypeCmd ==
    /\ Selects("type")
    /\ Parsed("type")
    /\ IF Len(Args) = 0
       THEN /\ Panics
            /\ stderr' = Append(stderr, IndexPanicText)
            /\ UNCHANGED <<stdout, lookup>>
       ELSE IF IsBuiltinName(Args[1])
       THEN /\ stdout' = Append(stdout, Args[1] \o <<" is a shell builtin", "\n">>)
            /\ Returns
            /\ UNCHANGED <<stderr, lookup>>
       ELSE LET res == getExecutablePath(Args[1])
            IN  /\ lookup' = Looked(Args[1], res)
                /\ CASE res.kind = "nopath" ->
                          Exits(1) /\ stderr' = stderr \o res.warn /\ UNCHANGED stdout
                     [] res.kind = "error" ->
                          /\ stderr' = Append(stderr \o res.warn, res.err \o <<"\n">>)
                          /\ Returns
                          /\ UNCHANGED stdout
                     [] res.kind = "found" ->
                          /\ stdout' = Append(stdout, Args[1] \o <<" is ">> \o res.path \o <<"\n">>)
                          /\ stderr' = stderr \o res.warn
                          /\ Returns
    /\ UNCHANGED <<cwd, cwdRemoved, spawned>>

\* The error of os.Getwd in a working directory that is gone.
GetwdErrText == <<"getwd: no such file or directory", "\n">>

\* Variant with a fault: pwd prints the directory the process started in.
executePwdCmdCached ==
    /\ ScanDone /\ Len(Flushed) >= 1 /\ command = wPwd
    /\ Parsed("pwd")
    /\ stdout' = Append(stdout, StartDir \o <<"\n">>)
    /\ Returns
    /\ UNCHANGED <<stderr, cwd, cwdRemoved, spawned, lookup>>

executePwdCmd ==
    /\ Selects("pwd")
    /\ Parsed("pwd")
    /\ IF cwdRemoved
       THEN stderr' = Append(stderr, GetwdErrText) /\ UNCHANGED stdout
       ELSE stdout' = Append(stdout, cwd \o <<"\n">>) /\ UNCHANGED stderr
    /\ Returns
    /\ UNCHANGED <<cwd, cwdRemoved, spawned, lookup>>

\* filepath.Abs: an absolute path is kept, a relative one is joined to the
\* working directory (the arguments of the model hold no ".", ".." or "/", so
\* the cleaning of the joined path changes nothing).
Abs(path) == IF path[1] = "/" THEN path ELSE cwd \o <<"/">> \o path

\* The message of a cd to a path that does not exist.
CdNotExistText(args, absPath) ==
    <<"cd: ">> \o Join(args, <<SP>>) \o <<": No such file or directory", "\n">>

executeCdCmd ==
    /\ Selects("cd")
    /\ Parsed("cd")
    /\ IF Len(Args) = 0
       THEN /\ Panics
            /\ stderr' = Append(stderr, IndexPanicText)
            /\ UNCHANGED <<cwd, cwdRemoved>>
       ELSE IF cwdRemoved /\ Args[1][1] # "/"
       THEN \* filepath.Abs of a relative path asks for the working directory
            /\ Returns
            /\ stderr' = Append(stderr, GetwdErrText)
            /\ UNCHANGED <<cwd, cwdRemoved>>
       ELSE LET absPath == IF Args[1] = <<"~">> THEN HomeDir ELSE Abs(Args[1])
            IN  /\ Returns
                /\ CASE PathStatus(absPath) = "dir" ->
                          cwd' = absPath /\ cwdRemoved' = FALSE /\ UNCHANGED stderr
                     [] PathStatus(absPath) = "notexist" ->
                          /\ stderr' = Append(stderr, CdNotExistText(Args, absPath))
                          /\ UNCHANGED <<cwd, cwdRemoved>>
                     [] PathStatus(absPath) = "notdir" ->
                          /\ stderr' = Append(stderr, <<"chdir ">> \o absPath
                                                     \o <<": not a directory", "\n">>)
                          /\ UNCHANGED <<cwd, cwdRemoved>>
    /\ UNCHANGED <<stdout, spawned, lookup>>

NotFoundText(line) == line \o <<": command not found", "\n">>

ChildOutput == <<"child output">>
ChildErrText == <<"exit status 1", "\n">>
LookPathErrText(file) ==
    <<"exec: ">> \o Quote(file) \o <<": executable file not found in $PATH", "\n">>

\* exec.Command resolves the name it is given by exec.LookPath, on its own:
\* the first search-path directory (an empty element stands for the working
\* directory) where the name is a file, not a directory, that the process may
\* execute.  The process owns none of the files of the search path, so what it
\* may execute is what carries the execute bit for others; the files of the
\* working tree carry none.  Whether the directory can be listed plays no part.
MayExecute(dir, file) ==
    /\ dir # ""
    /\ \E k \in 1..Len(ReadDirEntries(dir)) :
          LET entry == ReadDirEntries(dir)[k]
          IN  /\ entry.name = file
              /\ ~entry.isDir
              /\ ~entry.infoErr
              /\ entry.perm % 2 # 0

RECURSIVE LookPath(_, _, _)
LookPath(dirs, d, file) ==
    IF d > Len(dirs) THEN [ok |-> FALSE, path |-> <<>>]
    ELSE IF MayExecute(dirs[d], file) THEN [ok |-> TRUE, path |-> <<dirs[d], "/">> \o file]
    ELSE LookPath(dirs, d + 1, file)

\* runProgram up to the start of the child, and the fallback message of
\* evaluateCommand when it returns false before that.  The path that
\* getExecutablePath returns is dropped; the child is started from the command
\* name.  When it can be started, Output() waits for its end.
runProgram ==
    /\ Selects("external")
    /\ Parsed("external")
    /\ LET res == getExecutablePath(Exec)
           target == LookPath(pathEnv.dirs, 1, Exec)
       IN  /\ lookup' = Looked(Exec, res)
           /\ CASE res.kind = "nopath" ->
                     /\ Exits(1)
                     /\ stderr' = stderr \o res.warn
                     /\ UNCHANGED <<stdout, spawned>>
                [] res.kind = "error" ->
                     /\ stderr' = IF ContainsNotFound(res.err)
                                  THEN stderr \o res.warn
                                  ELSE Append(stderr \o res.warn, res.err \o <<"\n">>)
                     /\ stdout' = Append(stdout, NotFoundText(command))
                     /\ Returns
                     /\ UNCHANGED spawned
                [] res.kind = "found" /\ ~target.ok ->
                     /\ stderr' = Append(stderr \o res.warn, LookPathErrText(Exec))
                     /\ stdout' = Append(stdout, NotFoundText(command))
                     /\ Returns
                     /\ UNCHANGED spawned
                [] res.kind = "found" /\ target.ok ->
                     /\ pc' = "child"
                     /\ spawned' = << [name |-> Exec, args |-> Args, path |-> target.path,
                                       state |-> "running"] >>
                     /\ stderr' = stderr \o res.warn
                     /\ UNCHANGED <<stdout, exitCode>>
    /\ UNCHANGED <<cwd, cwdRemoved>>

\* The child ends and Output() returns: after a successful end its output is
\* printed; after a failure the error is printed, the output is dropped,
\* runProgram returns false and evaluateCommand prints its fallback message.
ChildEnds ==
    /\ pc = "child"
    /\ Returns
    /\ \E childOk \in BOOLEAN :
          IF childOk
          THEN /\ spawned' = << [spawned[1] EXCEPT !.state = "succeeded"] >>
               /\ stdout' = Append(stdout, ChildOutput)
               /\ UNCHANGED stderr
          ELSE /\ spawned' = << [spawned[1] EXCEPT !.state = "failed"] >>
               /\ stderr' = Append(stderr, ChildErrText)
               /\ stdout' = Append(stdout, NotFoundText(command))
    /\ UNCHANGED <<command, i, scanVars, last, selected, cwd, cwdRemoved, pathEnv, lookup,
                   pending>>

Next ==
    \/ ReadLine
    \/ ReadFails
    \/ NextTurn
    \/ RemoveCwd
    \/ ScanSingleQuote
    \/ ScanDoubleQuote
    \/ ScanBackslash
    \/ ScanSpace
    \/ ScanDefault
    \/ EvalNoCommand
    \/ executeExitCmd
    \/ executeEchoCmd
    \/ executeTypeCmd
    \/ executePwdCmd
    \/ executeCdCmd
    \/ runProgram
    \/ ChildEnds

Spec == Init /\ [][Next]_vars

\* The process is scheduled as long as it has a step to take, and every step
\* ends: a read returns (with a line or with the end of the input) and a
\* child that was started terminates.
LiveSpec == Spec /\ WF_vars(Next)

(***************************************************************************)
(* Properties                                                              *)
(***************************************************************************)
\* A scan step has just been taken on the current line: `last` is the state it
\* started from, at the rune command[last.i], and the state is the one it left.
Stepped == pc = "scan" /\ last.i >= 1
SteppedOn(rune) == Stepped /\ command[last.i] = rune

\* evaluateCommand has run on the line in `command`.
Evaluated == pc \in {"done", "exited", "panic"} /\ selected # "eof"

\* C1: every token parseCommand produces is a non-empty string, whatever the
\* spaces and empty quoted strings of the line.
C1_TokensNonEmpty == \A k \in 1..Len(tokens) : Len(tokens[k]) > 0

\* C1 witness: a line with a doubled space and an empty quoted string was
\* parsed to the one token echo.
C1_Witness ==
    /\ Evaluated
    /\ command = wEcho \o <<SP, SP, SQ, SQ>>
    /\ tokens = <<wEcho>>

\* C2: a backslash outside single quotes consumes the following character
\* only if that character is a double quote or a backslash.
C2_EscapeOnlySpecial ==
    (SteppedOn(BS) /\ ~last.sq /\ i = last.i + 2) => command[last.i + 1] \in {DQ, BS}

\* C3: a backslash outside single quotes followed by a double quote or a
\* backslash appends that character, drops the backslash and leaves the quote
\* flags and the tokens as they were; echo "a\"b" has the single argument a"b.
C3_EscapeAppendsVerbatim ==
    /\ (SteppedOn(BS) /\ ~last.sq /\ last.i + 1 <= Len(command)
          /\ command[last.i + 1] \in {DQ, BS})
       => /\ cur = Append(last.cur, command[last.i + 1])
          /\ i = last.i + 2
          /\ seenSingleQuote = last.sq
          /\ seenDoubleQuote = last.dq
          /\ Len(tokens) = last.ntok
    /\ (Evaluated /\ command = EchoEscapedQuote) => tokens = <<wEcho, <<"a", DQ, "b">> >>

\* C3 witness: an escaped double quote was scanned inside double quotes and
\* the quote is still open.
C3_Witness ==
    /\ command = EchoEscapedQuote
    /\ SteppedOn(BS)
    /\ last.dq
    /\ command[last.i + 1] = DQ
    /\ i = last.i + 2
    /\ seenDoubleQuote

\* C4: a space scanned with no quote flag active and a non-empty buffer emits
\* the buffer as a token and clears it.
C4_SpaceEmitsBuffer ==
    (SteppedOn(SP) /\ ~last.sq /\ ~last.dq /\ Len(last.cur) > 0)
    => /\ cur = <<>>
       /\ Len(tokens) = last.ntok + 1
       /\ tokens[Len(tokens)] = last.cur

\* C5: the two quote flags are never active together; a single quote scanned
\* inside double quotes, and a double quote scanned inside single quotes, is
\* appended to the buffer and toggles neither flag.
C5_QuotesExclusive ==
    /\ ~(seenSingleQuote /\ seenDoubleQuote)
    /\ (SteppedOn(SQ) /\ last.dq)
       => cur = Append(last.cur, SQ) /\ seenDoubleQuote /\ ~seenSingleQuote
    /\ (SteppedOn(DQ) /\ last.sq)
       => cur = Append(last.cur, DQ) /\ seenSingleQuote /\ ~seenDoubleQuote

\* C5 witness: a single quote was scanned while the double-quote flag was active.
C5_Witness == SteppedOn(SQ) /\ last.dq /\ cur = Append(last.cur, SQ)

\* C6: while the single-quote flag is active every character other than a
\* single quote is appended to the buffer as it is, ends no token and escapes
\* nothing; echo 'a  b' has the single argument a  b.
C6_SingleQuotedVerbatim ==
    /\ (Stepped /\ last.sq /\ command[last.i] # SQ)
       => /\ cur = Append(last.cur, command[last.i])
          /\ i = last.i + 1
          /\ Len(tokens) = last.ntok
          /\ seenSingleQuote
          /\ ~seenDoubleQuote
    /\ (Evaluated /\ command = EchoSingleQuoted) => tokens = <<wEcho, <<"a", SP, SP, "b">> >>

\* C6 witness: a backslash before a double quote was scanned inside single
\* quotes and only the backslash was taken.
C6_Witness ==
    /\ SteppedOn(BS)
    /\ last.sq
    /\ last.i + 1 <= Len(command)
    /\ command[last.i + 1] = DQ
    /\ i = last.i + 1

AllSpaces(line) == \A k \in 1..Len(line) : line[k] = SP

\* C7: a line of spaces only (the empty line too) yields no token, and
\* evaluateCommand runs no builtin and no lookup, prints nothing and ends the
\* process with exit code 0.
C7_BlankLineExitsZero ==
    (Evaluated /\ AllSpaces(command))
    => /\ tokens = <<>>
       /\ selected = "empty"
       /\ pc = "exited"
       /\ exitCode = <<0>>
       /\ stdout = <<Prompt>>
       /\ stderr = <<>>
       /\ spawned = NoChild

\* C7 witness: a line of several spaces ended the process.
C7_Witness == Evaluated /\ AllSpaces(command) /\ Len(command) >= 2 /\ pc = "exited"

\* The builtin a command name stands for.
BuiltinOf(name) ==
    CASE name = wExit -> "exit" [] name = wEcho -> "echo" [] name = wType -> "type"
      [] name = wPwd -> "pwd" [] name = wCd -> "cd"

\* C8: the external path is taken only when the parsed first token is no
\* builtin name; a line whose first token is a builtin name runs that builtin.
C8_BuiltinTokenRunsBuiltin ==
    (Evaluated /\ Len(tokens) >= 1 /\ tokens[1] \in Builtins)
    => selected = BuiltinOf(tokens[1])

Branches == {"exit", "echo", "type", "pwd", "cd", "external"}

\* C9: a line with at least one token selects exactly one branch, from the raw
\* line: exit, echo, type and cd whenever the line starts with that word, pwd
\* only when the line is exactly pwd, and the external path otherwise.
C9_DispatchOnRawLine ==
    (Evaluated /\ Len(tokens) >= 1)
    => /\ selected \in Branches
       /\ selected = "exit" <=> HasPrefix(command, wExit)
       /\ selected = "echo" <=> HasPrefix(command, wEcho)
       /\ selected = "type" <=> HasPrefix(command, wType)
       /\ selected = "pwd" <=> command = wPwd
       /\ selected = "cd" <=> HasPrefix(command, wCd)
       /\ selected = "external" <=>
             /\ command # wPwd
             /\ \A w \in {wExit, wEcho, wType, wCd} : ~HasPrefix(command, w)

\* C9 witness: a line that only starts with echo (its first token is longer)
\* ran echo, and a line starting with pwd that is not exactly pwd did not run pwd.
C9_Witness ==
    \/ Evaluated /\ selected = "echo" /\ tokens[1] = wEcho \o <<"2">>
    \/ Evaluated /\ selected = "external" /\ command = wPwd \o <<SP>>

\* The decimal value of a string of digits, most significant digit first.
RECURSIVE Decimal(_, _)
Decimal(s, acc) == IF s = <<>> THEN acc ELSE Decimal(Tail(s), 10 * acc + DigitVal(s[1]))

IsNumber(s) == s # <<>> /\ \A k \in 1..Len(s) : s[k] \in Digits

\* C10: exit always ends the process and nothing runs after it: code 0 with
\* no argument, the integer the first argument spells when it spells one,
\* code 1 with an error message otherwise; later arguments do not matter.
C10_ExitTerminates ==
    /\ (Evaluated /\ selected = "exit")
       => /\ pc = "exited"
          /\ Len(tokens) = 1 => exitCode = <<0>> /\ stderr = <<>>
          /\ (Len(tokens) >= 2 /\ IsNumber(tokens[2]))
             => exitCode = <<Decimal(tokens[2], 0)>> /\ stderr = <<>>
          /\ (Len(tokens) >= 2 /\ ~IsNumber(tokens[2]))
             => exitCode = <<1>> /\ Len(stderr) = 1
    /\ pc = "exited" => ~ENABLED Next

\* C10 witness: exit with a numeric first argument and a second argument that
\* is no number ended the process with the first one's value.
C10_Witness ==
    /\ Evaluated
    /\ selected = "exit"
    /\ Len(tokens) = 3
    /\ tokens[2] = <<"2">>
    /\ ~IsNumber(tokens[3])
    /\ exitCode = <<2>>

(***************************************************************************)
(* The search-path lookup                                                  *)
(***************************************************************************)
\* The directory can be listed and holds an entry of that name that is still
\* there, is not a directory and carries the owner-execute bit.
HoldsExecutable(dir, file) ==
    /\ ReadDirStatus(dir) = "ok"
    /\ \E k \in 1..Len(ReadDirEntries(dir)) :
          LET entry == ReadDirEntries(dir)[k]
          IN  /\ entry.name = file
              /\ ~entry.isDir
              /\ ~entry.infoErr
              /\ (entry.perm \div 64) % 2 = 1

SearchPathListable ==
    /\ pathEnv.set
    /\ \A d \in 1..Len(pathEnv.dirs) : ReadDirStatus(pathEnv.dirs[d]) # "denied"

\* C11: when every search-path directory can be listed or does not exist, the
\* lookup of a name returns dir/name for the first directory, in search-path
\* order, that holds an executable non-directory entry of that name (missing
\* directories are passed over), and returns the error "name: not found"
\* exactly when no directory holds one.
C11_FirstMatchInPathOrder ==
    (lookup # NoLookup /\ SearchPathListable) =>
        LET file == lookup[1].file
            holders == {d \in 1..Len(pathEnv.dirs) : HoldsExecutable(pathEnv.dirs[d], file)}
        IN  /\ holders # {} =>
                 LET first == CHOOSE d \in holders : \A e \in holders : d <= e
                 IN  /\ lookup[1].kind = "found"
                     /\ lookup[1].path = <<pathEnv.dirs[first], "/">> \o file
            /\ holders = {} =>
                 /\ lookup[1].kind = "error"
                 /\ lookup[1].err = file \o <<": not found">>
            /\ lookup[1].kind = "error" => holders = {}

\* The lookup of 2 passes over the missing /nodir and the non-executable /opt/2.
C11_Witness ==
    /\ lookup # NoLookup
    /\ SearchPathListable
    /\ pathEnv.dirs[1] = "/nodir"
    /\ ReadDirStatus("/nodir") = "notexist"
    /\ lookup[1].file = <<"2">>
    /\ lookup[1].kind = "found"
    /\ lookup[1].path = <<"/usr/bin", "/", "2">>

(***************************************************************************)
(* The builtins type, cd and pwd                                           *)
(***************************************************************************)
\* The type builtin has run on a line with at least one argument.
TypeRan == Evaluated /\ selected = "type" /\ Len(tokens) >= 2

BuiltinReport(name) == name \o <<" is a shell builtin", "\n">>

\* C12: type reports "<name> is a shell builtin" exactly when its first
\* argument is one of exit, echo, type, pwd, cd, and then without any lookup
\* in the search path; for another name it reports "<name> is <path>" with
\* the path the lookup returned, or the not-found message when the lookup
\* found nothing.
C12_TypeReportsBuiltinOrPath ==
    TypeRan =>
        LET name == tokens[2]
            named == name \in {<<"e", "x", "i", "t">>, <<"e", "c", "h", "o">>,
                               <<"t", "y", "p", "e">>, <<"p", "w", "d">>, <<"c", "d">>}
        IN  /\ named <=> (Len(stdout) = 2 /\ stdout[2] = BuiltinReport(name))
            /\ named => (lookup = NoLookup /\ stderr = <<>> /\ pc = "done")
            /\ ~named => (lookup # NoLookup /\ lookup[1].file = name)
            /\ (~named /\ lookup[1].kind = "found") =>
                  /\ stdout = <<Prompt, name \o <<" is ">> \o lookup[1].path \o <<"\n">>>>
                  /\ pc = "done"
            /\ (~named /\ lookup[1].kind = "error"
                       /\ lookup[1].err = name \o <<": not found">>) =>
                  /\ stdout = <<Prompt>>
                  /\ Len(stderr) >= 1
                  /\ stderr[Len(stderr)] = name \o <<": not found", "\n">>
                  /\ pc = "done"

\* type cd reports the builtin although /usr/bin/cd is an executable of the
\* search path.
C12_Witness ==
    /\ TypeRan
    /\ tokens[2] = wCd
    /\ HoldsExecutable("/usr/bin", wCd)
    /\ pathEnv.set
    /\ \E d \in 1..Len(pathEnv.dirs) : pathEnv.dirs[d] = "/usr/bin"
    /\ stdout = <<Prompt, <<"c", "d", " is a shell builtin", "\n">>>>
    /\ lookup = NoLookup

\* The step in which evaluateCommand runs the cd builtin on a line whose first
\* argument names a path that does not exist (the working directory itself
\* is there, so that a relative argument names a path at all).
CdToMissingPath ==
    /\ pc = "scan"
    /\ ~cwdRemoved
    /\ pc' # "scan"
    /\ selected' = "cd"
    /\ Len(tokens') >= 2
    /\ tokens'[2] # <<"~">>
    /\ PathStatus(IF tokens'[2][1] = "/" THEN tokens'[2]
                  ELSE cwd \o <<"/">> \o tokens'[2]) = "notexist"

\* C13: cd with an argument that names a path that does not exist writes
\* "cd: <that argument>: No such file or directory" to the error stream (and
\* nothing else anywhere), leaves the working directory as it was, and the
\* loop goes on to the next line.
C13_CdMissingPathReported ==
    [][CdToMissingPath =>
          /\ stderr' = Append(stderr, <<"cd: ">> \o tokens'[2]
                                          \o <<": No such file or directory", "\n">>)
          /\ stdout' = stdout
          /\ cwd' = cwd
          /\ pc' = "done"
          /\ exitCode' = NoCode]_vars

\* C14: the working directory changes only in a step where cd succeeds (it
\* wrote no error and the new directory exists); every other command and a
\* failed cd leave it as it was, and pwd prints the working directory (as long
\* as no other process has removed it), so two pwd with no successful cd
\* between them print the same directory.
C14_CwdChangesOnlyOnCd ==
    /\ [](Evaluated /\ selected = "pwd" /\ ~cwdRemoved =>
             stdout = <<Prompt, cwd \o <<"\n">>>>)
    /\ [][cwd' # cwd =>
             /\ pc = "scan"
             /\ selected' = "cd"
             /\ pc' = "done"
             /\ stderr' = stderr
             /\ PathStatus(cwd') = "dir"]_vars

\* pwd after a cd into the subdirectory prints the subdirectory.
C14_Witness ==
    /\ Evaluated
    /\ selected = "pwd"
    /\ cwd = SubDir
    /\ cwd # StartDir
    /\ ~cwdRemoved
    /\ stdout = <<Prompt, SubDir \o <<"\n">>>>

(***************************************************************************)
(* External commands and failures                                          *)
(***************************************************************************)
\* evaluateCommand fell through to runProgram with a command name that is not
\* a builtin and that no search-path directory holds as an executable.
LookupMisses ==
    /\ Evaluated
    /\ selected = "external"
    /\ tokens[1] \notin Builtins
    /\ pathEnv.set
    /\ \A d \in 1..Len(pathEnv.dirs) : ~HoldsExecutable(pathEnv.dirs[d], tokens[1])

\* C15: when the command name is not a builtin and no search-path directory
\* holds a matching executable, standard output gets exactly
\* "<first token>: command not found", the error stream gets nothing, and the
\* loop goes on.
C15_NotFoundNamesCommand ==
    LookupMisses =>
        /\ stdout = <<Prompt, tokens[1] \o <<": command not found", "\n">>>>
        /\ stderr = <<>>
        /\ pc = "done"

\* C16: every line that arrived on standard input is evaluated: a turn of
\* the read loop takes from the input the one line it evaluates and leaves
\* every later line there for the turns to come.
C16_NoLineLost ==
    [][(pc = "read" /\ pc' = "scan") => pending' = pending - 1]_vars

\* The evaluated line failed: the lookup missed or could not read a directory,
\* the child could not be started or ended in failure, or cd reported an error.
LineFailed ==
    /\ Evaluated
    /\ pc = "done"
    /\ \/ /\ selected = "external"
          /\ \/ lookup[1].kind = "error"
             \/ spawned = NoChild
             \/ spawned[1].state = "failed"
       \/ /\ selected = "cd"
          /\ Len(stderr) > 0

\* C17: a failing line is reported exactly once: one message in total over
\* standard output and the error stream.
C17_FailureReportedOnce ==
    LineFailed => (Len(stdout) - Len(<<Prompt>>)) + Len(stderr) = 1

\* C18: evaluateCommand never ends in a runtime panic.
C18_NeverPanics == pc # "panic"

\* The maximal runs of non-space characters of a line, from position k on,
\* run being the run collected so far.
RECURSIVE FieldsFrom(_, _, _)
FieldsFrom(line, k, run) ==
    LET closed == IF run = <<>> THEN <<>> ELSE <<run>>
    IN  IF k > Len(line) THEN closed
        ELSE IF line[k] = " " THEN closed \o FieldsFrom(line, k + 1, <<>>)
        ELSE FieldsFrom(line, k + 1, Append(run, line[k]))

Fields(line) == FieldsFrom(line, 1, <<>>)

RECURSIVE SpacedOut(_)
SpacedOut(words) ==
    IF Len(words) = 0 THEN <<>>
    ELSE IF Len(words) = 1 THEN words[1]
    ELSE words[1] \o <<" ">> \o SpacedOut(Tail(words))

Unquoted(line) == \A k \in 1..Len(line) : line[k] \notin {"'", "\"", "\\"}

\* C19: for a line with no single quote, double quote or backslash the tokens
\* are exactly the maximal runs of non-space characters, in order, and echo
\* prints all of them but the first, separated by single spaces.
C19_UnquotedLineSplitsOnSpaces ==
    (Evaluated /\ Unquoted(command)) =>
        /\ tokens = Fields(command)
        /\ selected = "echo" =>
              stdout = <<Prompt, SpacedOut(Tail(Fields(command))) \o <<"\n">>>>

\* echo hello world gave the tokens echo, hello, world and printed hello world.
C19_Witness ==
    /\ Evaluated
    /\ command = EchoHelloWorld
    /\ Unquoted(command)
    /\ selected = "echo"
    /\ tokens = <<wEcho, <<"h", "e", "l", "l", "o">>, <<"w", "o", "r", "l", "d">>>>
    /\ stdout = <<Prompt, <<"h", "e", "l", "l", "o", " ", "w", "o", "r", "l", "d", "\n">>>>

\* C20: when runProgram finds the command in the search path, the child it
\* starts is the file at the path getExecutablePath returned, it gets the
\* parsed arguments, and what it wrote to its standard output is printed
\* unchanged.
C20_ChildIsLookedUpFile ==
    (Evaluated /\ selected = "external" /\ lookup # NoLookup /\ lookup[1].kind = "found") =>
        /\ spawned # NoChild
        /\ spawned[1].path = lookup[1].path
        /\ spawned[1].args = Tail(tokens)
        /\ spawned[1].state = "succeeded" => stdout = <<Prompt, ChildOutput>>

(***************************************************************************)
(* Termination                                                             *)
(***************************************************************************)
\* The process has ended: by os.Exit or by a runtime panic.
Terminated == pc \in {"exited", "panic"}

\* The process was ended by an exit command, by a line without tokens, or by
\* a lookup that found the search-path variable missing.
EndedByCommand ==
    \/ selected = "exit"
    \/ selected = "empty"
    \/ lookup # NoLookup /\ lookup[1].kind = "nopath"

\* The process was ended by the end of the input: exit code 1, every line was
\* taken, and what followed the last newline was not evaluated.
EndedByEndOfInput ==
    /\ selected = "eof"
    /\ pc = "exited"
    /\ exitCode = <<1>>
    /\ pending = 0
    /\ tokens = <<>>
    /\ i = 1
    /\ stdout = <<Prompt>>
    /\ spawned = NoChild
    /\ lookup = NoLookup

\* C21: on a finite input the interpreter eventually terminates; when no exit
\* command, token-less line or missing search-path variable has ended it, it
\* ends with exit code 1 at the end of the input, and an unterminated last
\* line is never evaluated.
C21_TerminatesOnFiniteInput ==
    /\ <>Terminated
    /\ [](Terminated => (EndedByCommand \/ EndedByEndOfInput))
    /\ [](selected = "eof" => EndedByEndOfInput)

====
